---- MODULE Spec2Model ----
(***************************************************************************)
(* A state-machine model of salt/overstate.py (class OverState): the       *)
(* sorted stage Definition, the run registry over_run, the recursive       *)
(* generator call_stage driven by stages_iter (through yielder), and the   *)
(* eager driver stages.                                                    *)
(*                                                                         *)
(* The nested generators are an explicit stack of call_stage frames; the   *)
(* top frame is the generator that is running.  Every item stages_iter     *)
(* yields is appended to `out`; every call made on the LocalClient is      *)
(* appended to `calls`.  mode, idx, stack and out belong to the generator  *)
(* of stages_iter that is running; `other` holds those of a second         *)
(* generator of the same instance while it is suspended.                   *)
(***************************************************************************)
EXTENDS Integers, Sequences, FiniteSets, TLC

VARIABLES over, over_run, mode, idx, stack, out, calls, other

vars == <<over, over_run, mode, idx, stack, out, calls, other>>

(***************************************************************************)
(* Bounds of the model.                                                    *)
(***************************************************************************)
\* the longest 'require' list of a stage
MaxReq == 2
\* the requisite entries of one Definition, all stages together
MaxWeight == 4
\* the deepest nesting of call_stage generators that is followed
MaxDepth == 4
\* the requisite entries of one Definition on which two passes interleave
InterleavedWeight == 1

(***************************************************************************)
(* Names.  NameOrder lists the stage names in sorted() order; "x" is a     *)
(* requisite name no Definition defines.                                   *)
(***************************************************************************)
NameOrder == <<"a", "b", "c">>
StageNames == {NameOrder[k] : k \in 1..Len(NameOrder)}
MissingNames == {"x"}
Rank(n) == CHOOSE k \in 1..Len(NameOrder) : NameOrder[k] = n

MinionOrder == <<"m1", "m2">>
ReqFailTag == "req_|-fail_|-fail_|-None"
NoReqTag == "No_|-Req_|-fail_|-None"
\* the order in which the keys of one outcome are iterated
KeyOrder == MinionOrder \o <<ReqFailTag, NoReqTag>>
KeyRank(k) == CHOOSE r \in 1..Len(KeyOrder) : KeyOrder[r] = k

\* the shapes of a stage body's work keys
WorkForms == {"highstate", "sls", "function", "fun_none", "fun_empty_str",
              "fun_empty_dict"}

EmptyDict == [k \in {} |-> 0]

(***************************************************************************)
(* Dictionaries are functions.                                             *)
(***************************************************************************)
\* d[k] = v
DictSet(d, k, v) == [x \in DOMAIN d \cup {k} |-> IF x = k THEN v ELSE d[x]]
\* d.update(e)
DictUpdate(d, e) ==
    [x \in DOMAIN d \cup DOMAIN e |-> IF x \in DOMAIN e THEN e[x] ELSE d[x]]

RECURSIVE KeySeq(_)
\* the keys of a set in the order they are iterated
KeySeq(S) ==
    IF S = {} THEN <<>>
    ELSE LET k == CHOOSE x \in S : \A y \in S : KeyRank(x) <= KeyRank(y)
         IN  <<k>> \o KeySeq(S \ {k})

(***************************************************************************)
(* The Definition: __sort_stages, _names, get_stage, verify_stage.         *)
(***************************************************************************)
RECURSIVE SortedNames(_)
\* sorted(pre_over): the least remaining key first
SortedNames(S) ==
    IF S = {} THEN <<>>
    ELSE LET n == CHOOSE x \in S : \A y \in S : Rank(x) <= Rank(y)
         IN  <<n>> \o SortedNames(S \ {n})

\* the comps in the reverse of the sorted order
sort_stages_reversed(pre_over) ==
    LET keys == SortedNames(DOMAIN pre_over)
    IN  [k \in 1..Len(keys) |->
            [name |-> keys[Len(keys) + 1 - k],
             body |-> pre_over[keys[Len(keys) + 1 - k]]]]

\* one comp {key: pre_over[key]} per key, in sorted order
sort_stages(pre_over) ==
    LET keys == SortedNames(DOMAIN pre_over)
    IN  [k \in 1..Len(keys) |-> [name |-> keys[k], body |-> pre_over[keys[k]]]]

names == {over[k].name : k \in 1..Len(over)}

\* the position of the first comp holding `name` (0: None)
get_stage(name) ==
    IF \E k \in 1..Len(over) : over[k].name = name
    THEN CHOOSE k \in 1..Len(over) :
            /\ over[k].name = name
            /\ \A l \in 1..(k - 1) : over[l].name # name
    ELSE 0

\* a validation that finds an error in every stage
verify_stage_rejects(body) == <<"No \"match\" argument in stage.">>

\* the list of errors; the empty list stands for "the stage is returned"
verify_stage(body) ==
    IF ~body.match THEN <<"No \"match\" argument in stage.">> ELSE <<>>

(***************************************************************************)
(* call_stage: the work form, the requisite check, the failure records.    *)
(***************************************************************************)
\* fun after lines 115-132
stage_fun(work) ==
    CASE work = "sls" -> "state.sls"
      [] work = "function" -> "cmd.run"
      [] work = "fun_empty_str" -> ""
      [] OTHER -> "state.highstate"

\* how many times lines 125 and 132 yield {name: {}}
empty_yields(work) ==
    CASE work = "fun_none" -> 2
      [] work = "fun_empty_str" -> 1
      [] work = "fun_empty_dict" -> 1
      [] OTHER -> 0

\* salt.utils.check_state_result on one minion's return
check_state_result(ret) == ret.result

\* a check that takes every record of a requisite for a success
minion_good_always(rec) == TRUE

\* lines 138-150: this minion of the requisite is good
minion_good(rec) ==
    IF rec.fun = "state.highstate" THEN check_state_result(rec.ret)
    ELSE IF rec.fun = "state.sls" THEN check_state_result(rec.ret)
    ELSE rec.retcode = 0 /\ rec.success

\* lines 151-164
req_failed(req, minion) ==
    [k \in {ReqFailTag} |->
        [ret |-> [result |-> FALSE,
                  comment |-> <<"Requisite", req, "failed for stage on minion", minion>>],
         retcode |-> 254, success |-> FALSE, fun |-> "req.fail"]]

\* lines 168-181
req_not_found(req) ==
    [k \in {NoReqTag} |->
        [ret |-> [result |-> FALSE,
                  comment |-> <<"Requisite", req, "not found">>],
         retcode |-> 253, success |-> FALSE, fun |-> "req.fail"]]

\* a driver that calls every stage again, whether or not it has run
has_run_never(name) == FALSE

\* line 254 (and 232): name in self.over_run
has_run(name) == name \in DOMAIN over_run

\* a resolver that never finds a requisite in the run registry
req_called_never(req) == FALSE

\* line 135: req in self.over_run
req_called(req) == req \in DOMAIN over_run

\* a resolver that goes to the dispatch without walking stage['require']
reqs_left_none(f) == FALSE

\* line 134: the loop over stage['require'] has a requisite left
reqs_left(f) == f.i <= Len(f.body.require)

\* a resolver that dispatches whatever the requisite loop recorded
requisites_failed_never(f) == FALSE

\* line 194: req_fail[name] is not empty
requisites_failed(f) == f.req_fail # EmptyDict

\* a resolver that calls a requisite without validating it
req_v_stage_unchecked(rstage) == <<>>

\* lines 189-190: v_stage of the requisite's body, as its list of errors
req_v_stage(rstage) == verify_stage(rstage)

\* a generator that takes the stage to have no 'require'
NewFrame_no_require(name, body) ==
    [name |-> name, body |-> [body EXCEPT !.require = <<>>],
     fun |-> "state.highstate", pc |-> "form", i |-> 1, j |-> 1,
     req_fail |-> EmptyDict]

\* the generator call_stage(name, stage) before its first step
NewFrame(name, body) ==
    [name |-> name, body |-> body, fun |-> "state.highstate", pc |-> "form",
     i |-> 1, j |-> 1, req_fail |-> EmptyDict]

(***************************************************************************)
(* The LocalClient: what one cmd_iter / cmd_batch call can return.         *)
(***************************************************************************)
GoodRet == [result |-> TRUE, comment |-> <<"ok">>]
BadRet == [result |-> FALSE, comment |-> <<"failed">>]

\* one minion's record: fine; the call failed; a state of the run failed
RecGood == [ret |-> GoodRet, retcode |-> 0, success |-> TRUE]
RecCallFailed == [ret |-> GoodRet, retcode |-> 1, success |-> FALSE]
RecStateFailed == [ret |-> BadRet, retcode |-> 0, success |-> TRUE]

MinionReturns == {RecGood, RecCallFailed, RecStateFailed}

\* a record that has none of 'id', 'return' and 'fun'
Malformed == [malformed |-> TRUE]
\* the place of a record without 'id' among the records of one call
NoId == "-"

\* the records one call yields, by minion id: none, only a malformed one,
\* one minion with any record, or two minions of which the second failed
AdapterReturns ==
    {EmptyDict}
    \cup {[m \in {NoId} |-> Malformed]}
    \cup [{MinionOrder[1]} -> MinionReturns]
    \cup {[m \in {MinionOrder[1], MinionOrder[2]} |->
             IF m = MinionOrder[1] THEN r ELSE RecCallFailed] :
          r \in {RecGood, RecCallFailed}}

\* lines 210-220: the records folded into ret; line 211 skips a record
\* that has none of 'id', 'return' and 'fun'
fold_ret(raw, fun) ==
    [m \in {k \in DOMAIN raw : raw[k] # Malformed} |->
        [ret |-> raw[m].ret, fun |-> fun,
         retcode |-> raw[m].retcode, success |-> raw[m].success]]

(***************************************************************************)
(* The parsed documents the model is run on.                               *)
(***************************************************************************)
ReqSeqs(n) ==
    UNION { [1..l -> (StageNames \cup MissingNames) \ {n}] : l \in 0..MaxReq }

\* the bodies a stage named n can have
Bodies(n) ==
    {[match |-> m, work |-> w, require |-> r] :
        m \in BOOLEAN, w \in WorkForms, r \in ReqSeqs(n)}

\* the requisite entries of the body; an attribute that differs from
\* {match: ...} weighs so much that two requisite entries fit beside it
BodyWeight(body) ==
    Len(body.require)
    + (IF body.work = "highstate" THEN 0 ELSE MaxWeight - 2)
    + (IF body.match THEN 0 ELSE MaxWeight - 2)

RECURSIVE Documents(_, _)
\* the mappings of the names S to bodies, of at most the given weight
Documents(S, weight) ==
    IF S = {} THEN {EmptyDict}
    ELSE LET n == CHOOSE x \in S : TRUE
         IN  UNION {{DictSet(rest, n, body) :
                        rest \in Documents(S \ {n}, weight - BodyWeight(body))} :
                    body \in {b \in Bodies(n) : BodyWeight(b) <= weight}}

(***************************************************************************)
(* State after OverState.__init__ (lines 29-35).                           *)
(***************************************************************************)
Init ==
    /\ \E pre_over \in Documents(StageNames, MaxWeight) :
         over = sort_stages(pre_over)
    /\ over_run = EmptyDict
    /\ mode = "idle"
    /\ idx = 0
    /\ stack = <<>>
    /\ out = <<>>
    /\ calls = <<>>
    /\ other = <<>>

(***************************************************************************)
(* stages_iter, lines 260-267: what the driver does with one event of      *)
(* call_stage that yielder hands it.  An event is {sname: outcome} or      *)
(* {sname: errors}.                                                        *)
(***************************************************************************)
OutcomeEvent(sname, outcome) ==
    [sname |-> sname, kind |-> "outcome", outcome |-> outcome]
ErrorsEvent(sname, errors) ==
    [sname |-> sname, kind |-> "errors", errors |-> errors]

\* the items yielded for the event; iterating an error list as if it were a
\* mapping raises TypeError at line 266, after line 263 has yielded
Yielded(ev) ==
    IF ev.kind = "errors"
    THEN <<[kind |-> "stage", stage |-> get_stage(ev.sname)]>>
    ELSE <<[kind |-> "stage", stage |-> get_stage(ev.sname)],
           [kind |-> "final", stage |-> get_stage(ev.sname),
            final |-> [m \in DOMAIN ev.outcome |-> ev.outcome[m].ret]]>>

Raises(ev) == ev.kind = "errors"

RECURSIVE YieldedAll(_)
YieldedAll(evs) ==
    IF evs = <<>> THEN <<>> ELSE Yielded(Head(evs)) \o YieldedAll(Tail(evs))

Top == stack[Len(stack)]
SetTop(f) == [stack EXCEPT ![Len(stack)] = f]
Pop == SubSeq(stack, 1, Len(stack) - 1)

(***************************************************************************)
(* stages (lines 224-233): call_stage is a generator function, so line 233 *)
(* builds a generator and drops it; no line of call_stage runs.            *)
(***************************************************************************)
stages ==
    /\ mode = "idle"
    /\ over_run' = EmptyDict
    /\ mode' = "stages_returned"
    /\ UNCHANGED <<over, idx, stack, out, calls, other>>

(***************************************************************************)
(* stages_iter (lines 249-250): reset the run registry, yield self.over.   *)
(***************************************************************************)
stages_iter ==
    /\ mode = "idle"
    /\ over_run' = EmptyDict
    /\ out' = <<[kind |-> "over"]>>
    /\ idx' = 1
    /\ mode' = "iter"
    /\ UNCHANGED <<over, stack, calls, other>>

(***************************************************************************)
(* stages_iter (lines 251-260): one turn of the loop over self.over, taken *)
(* when no call_stage generator is open.                                   *)
(***************************************************************************)
iter_comp ==
    /\ mode = "iter"
    /\ stack = <<>>
    /\ IF idx > Len(over)
       THEN /\ mode' = "done"
            /\ UNCHANGED <<idx, stack, out>>
       ELSE LET name == over[idx].name
                stage == over[idx].body
            IN  /\ idx' = idx + 1
                /\ mode' = mode
                /\ IF has_run(name)
                   THEN UNCHANGED <<stack, out>>
                   ELSE IF verify_stage(stage) # <<>>
                   THEN /\ out' = out \o <<[kind |-> "stage", stage |-> idx],
                                           [kind |-> "errors", stage |-> idx,
                                            errors |-> verify_stage(stage)]>>
                        /\ UNCHANGED stack
                   ELSE /\ stack' = <<NewFrame(name, stage)>>
                        /\ UNCHANGED out
    /\ UNCHANGED <<over, over_run, calls, other>>

(***************************************************************************)
(* call_stage (lines 115-132): the work form.                              *)
(***************************************************************************)
call_stage_form ==
    /\ mode = "iter"
    /\ stack # <<>>
    /\ Top.pc = "form"
    /\ LET work == Top.body.work
           evs == [k \in 1..empty_yields(work) |-> OutcomeEvent(Top.name, EmptyDict)]
       IN  /\ out' = out \o YieldedAll(evs)
           /\ IF work = "fun_empty_dict"
              THEN \* fun_d.keys()[0] on {} raises IndexError (line 129)
                   /\ mode' = "crashed"
                   /\ UNCHANGED stack
              ELSE /\ mode' = mode
                   /\ stack' = SetTop([Top EXCEPT !.pc = "req", !.fun = stage_fun(work)])
    /\ UNCHANGED <<over, over_run, idx, calls, other>>

\* the requisite the running generator is at (line 134)
InReqLoop ==
    /\ mode = "iter"
    /\ stack # <<>>
    /\ Top.pc = "req"
    /\ reqs_left(Top)

Req == Top.body.require[Top.i]

(***************************************************************************)
(* call_stage (lines 135-166): the requisite has been called; one turn of  *)
(* the loop over its minions.  The turn after the last minion moves to the *)
(* next requisite.                                                         *)
(***************************************************************************)
call_stage_req_called ==
    /\ InReqLoop
    /\ req_called(Req)
    /\ LET keys == KeySeq(DOMAIN over_run[Req])
           last == Top.j >= Len(keys)
           next == IF last THEN [Top EXCEPT !.i = @ + 1, !.j = 1]
                   ELSE [Top EXCEPT !.j = @ + 1]
       IN  IF keys = <<>> \/ minion_good(over_run[Req][keys[Top.j]])
           THEN /\ stack' = SetTop(next)
                /\ UNCHANGED over_run
           ELSE LET failure == req_failed(Req, keys[Top.j])
                IN  /\ over_run' = DictSet(over_run, Top.name, failure)
                    /\ stack' = SetTop([next EXCEPT
                                   !.req_fail = DictUpdate(@, failure)])
    /\ UNCHANGED <<over, mode, idx, out, calls, other>>

(***************************************************************************)
(* call_stage (lines 167-183): the requisite is not a stage name.          *)
(***************************************************************************)
call_stage_req_missing ==
    /\ InReqLoop
    /\ ~req_called(Req)
    /\ Req \notin names
    /\ LET failure == req_not_found(Req)
       IN  /\ over_run' = DictSet(over_run, Top.name, failure)
           /\ stack' = SetTop([Top EXCEPT !.i = @ + 1,
                                          !.req_fail = DictUpdate(@, failure)])
    /\ UNCHANGED <<over, mode, idx, out, calls, other>>

(***************************************************************************)
(* call_stage (lines 184-193): the requisite is a stage that has not been  *)
(* called.  Line 193 yields the requisite's generator, which yielder runs  *)
(* to its end before this generator is resumed; nothing reads the          *)
(* requisite's outcome afterwards.                                         *)
(***************************************************************************)
call_stage_req_resolve ==
    /\ InReqLoop
    /\ ~req_called(Req)
    /\ Req \in names
    /\ LET rstage == over[get_stage(Req)].body
           v_stage == req_v_stage(rstage)
       IN  IF v_stage # <<>>
           THEN /\ out' = out \o Yielded(ErrorsEvent(Req, v_stage))
                /\ mode' = IF Raises(ErrorsEvent(Req, v_stage)) THEN "crashed" ELSE mode
                /\ stack' = SetTop([Top EXCEPT !.i = @ + 1])
           ELSE /\ Len(stack) < MaxDepth
                /\ stack' = Append(SetTop([Top EXCEPT !.i = @ + 1]),
                                   NewFrame(Req, rstage))
                /\ UNCHANGED <<out, mode>>
    /\ UNCHANGED <<over, over_run, idx, calls, other>>

\* the requisite loop is over (or the stage has no 'require')
AtEnd ==
    /\ mode = "iter"
    /\ stack # <<>>
    /\ Top.pc = "req"
    /\ ~reqs_left(Top)

(***************************************************************************)
(* call_stage (lines 194-195): a requisite failed; yield req_fail.         *)
(***************************************************************************)
call_stage_req_fail ==
    /\ AtEnd
    /\ requisites_failed(Top)
    /\ out' = out \o Yielded(OutcomeEvent(Top.name, Top.req_fail))
    /\ stack' = Pop
    /\ UNCHANGED <<over, over_run, mode, idx, calls, other>>

(***************************************************************************)
(* call_stage (lines 196-222): the dispatch.  _stage_list pings the match, *)
(* cmd_iter (cmd_batch with 'batch') runs fun on the targets, the records  *)
(* are folded into ret, over_run[name] = ret, yield {name: ret}.           *)
(***************************************************************************)
call_stage_dispatch ==
    /\ AtEnd
    /\ ~requisites_failed(Top)
    /\ \E raw \in AdapterReturns :
         LET ret == fold_ret(raw, Top.fun)
         IN  /\ calls' = calls \o <<[stage |-> Top.name, fun |-> "test.ping"],
                                    [stage |-> Top.name, fun |-> Top.fun]>>
             /\ over_run' = DictSet(over_run, Top.name, ret)
             /\ out' = out \o Yielded(OutcomeEvent(Top.name, ret))
    /\ stack' = Pop
    /\ UNCHANGED <<over, mode, idx, other>>

Next ==
    \/ stages
    \/ stages_iter
    \/ iter_comp
    \/ call_stage_form
    \/ call_stage_req_called
    \/ call_stage_req_missing
    \/ call_stage_req_resolve
    \/ call_stage_req_fail
    \/ call_stage_dispatch

Spec == Init /\ [][Next]_vars

(***************************************************************************)
(* A fully consumed streaming pass: the consumer keeps asking stages_iter  *)
(* for the next item and every call on the LocalClient returns, so a step  *)
(* of the pass that can be taken is taken.                                 *)
(***************************************************************************)
PassStep ==
    \/ iter_comp
    \/ call_stage_form
    \/ call_stage_req_called
    \/ call_stage_req_missing
    \/ call_stage_req_resolve
    \/ call_stage_req_fail
    \/ call_stage_dispatch

FairSpec == Init /\ [][Next]_vars /\ WF_vars(PassStep)

(***************************************************************************)
(* Two streaming passes on one instance.  A generator of stages_iter runs  *)
(* only while its consumer asks it for the next item, so two generators    *)
(* interleave at their yields.  AtYield holds where the running generator  *)
(* is known to be suspended at a yield of the driver's loop with no        *)
(* call_stage open: right after `yield self.over` (line 250), or after the *)
(* last item of the comp the loop has just handled (line 258 or 267).      *)
(***************************************************************************)
AtYield ==
    /\ mode = "iter"
    /\ stack = <<>>
    /\ out # <<>>
    /\ IF out[Len(out)].kind = "over"
       THEN idx = 1
       ELSE out[Len(out)].stage = idx - 1

\* mode, idx, stack and out of the running generator
Running == [mode |-> mode, idx |-> idx, stack |-> stack, out |-> out]

(***************************************************************************)
(* stages_iter is called a second time while the first generator is        *)
(* suspended, and the new generator is asked for its first item (lines     *)
(* 249-250): it rebinds self.over_run, the attribute both generators read. *)
(***************************************************************************)
second_pass ==
    /\ other = <<>>
    /\ AtYield
    /\ other' = <<Running>>
    /\ over_run' = EmptyDict
    /\ out' = <<[kind |-> "over"]>>
    /\ idx' = 1
    /\ stack' = <<>>
    /\ mode' = "iter"
    /\ UNCHANGED <<over, calls>>

(***************************************************************************)
(* The consumer turns to the suspended generator: the running one stays at *)
(* its yield (or has ended) and the other one is resumed.                  *)
(***************************************************************************)
switch_pass ==
    /\ other # <<>>
    /\ other[1].mode = "iter"
    /\ AtYield \/ mode \in {"done", "crashed"}
    /\ other' = <<Running>>
    /\ mode' = other[1].mode
    /\ idx' = other[1].idx
    /\ stack' = other[1].stack
    /\ out' = other[1].out
    /\ UNCHANGED <<over, over_run, calls>>

\* the instance after __init__, on the smaller Definitions
InitInterleaved ==
    /\ \E pre_over \in Documents(StageNames, InterleavedWeight) :
         over = sort_stages(pre_over)
    /\ over_run = EmptyDict
    /\ mode = "idle"
    /\ idx = 0
    /\ stack = <<>>
    /\ out = <<>>
    /\ calls = <<>>
    /\ other = <<>>

NextInterleaved ==
    \/ Next
    \/ second_pass
    \/ switch_pass

InterleavedSpec == InitInterleaved /\ [][NextInterleaved]_vars

(***************************************************************************)
(* Vocabulary of the properties.                                           *)
(***************************************************************************)
Body(s) == over[get_stage(s)].body
Valid(s) == Body(s).match
Reqs(s) == {Body(s).require[k] : k \in 1..Len(Body(s).require)}
StageReqs(s) == Reqs(s) \cap names

RECURSIVE Reach(_, _)
Reach(S, n) ==
    IF n = 0 THEN S ELSE Reach(S \cup UNION {StageReqs(t) : t \in S}, n - 1)
\* the stages s requires, directly or through other stages
TransReqs(s) == Reach(StageReqs(s), Len(over))
Acyclic == \A s \in names : s \notin TransReqs(s)

EmptyFunctionForms == {"fun_none", "fun_empty_str", "fun_empty_dict"}

\* the calls that ran the work of stage s on its targets
Dispatches(s) ==
    {k \in 1..Len(calls) : calls[k].stage = s /\ calls[k].fun # "test.ping"}
Dispatched(s) == Dispatches(s) # {}

\* a target's record of a Result is a success
TargetSucceeded(rec) ==
    IF rec.fun \in {"state.highstate", "state.sls"}
    THEN rec.ret.result
    ELSE rec.retcode = 0 /\ rec.success
Satisfied(outcome) == \A m \in DOMAIN outcome : TargetSucceeded(outcome[m])

\* the outcome is a RequisiteFailure with this retcode
IsRequisiteFailure(outcome, retcode) ==
    \E k \in DOMAIN outcome :
        outcome[k].fun = "req.fail" /\ outcome[k].retcode = retcode
IsFailure(outcome) == \E k \in DOMAIN outcome : outcome[k].fun = "req.fail"

(***************************************************************************)
(* C1.  At the end of a fully consumed streaming pass, for valid stages A  *)
(* and B with A among B's requisites: unless every target of A's recorded  *)
(* outcome succeeded, B's work was not dispatched and B's entry is a       *)
(* RequisiteFailure with retcode 254.  (A recorded RequisiteFailure is an  *)
(* outcome whose target did not succeed, which is the transitive case.)    *)
(* Stated of the Definitions without requisite cycles.                     *)
(***************************************************************************)
C1_RequisiteGate ==
    (mode = "done" /\ Acyclic) =>
        \A A \in names, B \in names :
            (Valid(A) /\ Valid(B) /\ A \in Reqs(B)) =>
                \/ A \in DOMAIN over_run /\ Satisfied(over_run[A])
                \/ /\ ~Dispatched(B)
                   /\ B \in DOMAIN over_run
                   /\ IsRequisiteFailure(over_run[B], 254)

(***************************************************************************)
(* C2.  When the eager driver has returned on an acyclic Definition whose  *)
(* stages all have 'match' and a non-empty work form, every stage name is  *)
(* a key of over_run.                                                      *)
(***************************************************************************)
C2_EagerResolvesAll ==
    ( /\ mode = "stages_returned"
      /\ Acyclic
      /\ \A s \in names : Valid(s) /\ Body(s).work \notin EmptyFunctionForms )
    => \A s \in names : s \in DOMAIN over_run

(***************************************************************************)
(* C3.  At the end of the pass, a valid stage B that lists a requisite X   *)
(* that is no stage name has a Run State entry holding the record with     *)
(* retcode 253 and the comment "Requisite X not found".  Stated of the     *)
(* Definitions without requisite cycles.                                   *)
(***************************************************************************)
C3_MissingRecorded ==
    (mode = "done" /\ Acyclic) =>
        \A B \in names : \A X \in Reqs(B) \ names :
            Valid(B) =>
                /\ B \in DOMAIN over_run
                /\ \E k \in DOMAIN over_run[B] :
                      /\ over_run[B][k].retcode = 253
                      /\ over_run[B][k].ret.comment = <<"Requisite", X, "not found">>

(***************************************************************************)
(* C4.  Within a pass an entry of over_run, once written, is not written   *)
(* again: no step of the pass changes or removes it.  Stated of the        *)
(* Definitions without requisite cycles.                                   *)
(***************************************************************************)
C4_WrittenOnce ==
    [][ (mode = "iter" /\ Acyclic) =>
          \A s \in DOMAIN over_run :
              s \in DOMAIN over_run' /\ over_run'[s] = over_run[s] ]_vars

(***************************************************************************)
(* C5.  In a streaming pass over an acyclic Definition the work of a stage *)
(* is dispatched at most once.                                             *)
(***************************************************************************)
C5_DispatchedOnce ==
    (\A s \in names : Cardinality(Dispatches(s)) <= 1) \/ ~Acyclic

\* a pass is over in which stage s was resolved as the requisite of an
\* earlier stage d1, read again as the requisite of d2, and met again by the
\* driver's own loop
C5_Witness ==
    /\ mode = "done"
    /\ Acyclic
    /\ \E s \in names, d1 \in names, d2 \in names :
          /\ d1 # d2
          /\ s \in Reqs(d1) /\ s \in Reqs(d2)
          /\ Rank(d1) < Rank(s) /\ Rank(d1) < Rank(d2)
          /\ Cardinality(Dispatches(s)) = 1
          /\ Dispatched(d1) /\ Dispatched(d2)

(***************************************************************************)
(* C6.  A stage whose 'function' key holds None, '' or {} is a no-op: no   *)
(* call is made on the client for it and call_stage does not raise on it.  *)
(***************************************************************************)
C6_EmptyFunctionNoOp ==
    \A s \in names :
        Body(s).work \in EmptyFunctionForms =>
            /\ \A k \in 1..Len(calls) : calls[k].stage # s
            /\ ~(mode = "crashed" /\ stack # <<>> /\ Top.name = s /\ Top.pc = "form")

(***************************************************************************)
(* C7.  When valid stage B requires the known stage A that has no 'match', *)
(* the streaming pass does not end in an exception raised while B's        *)
(* requisite A is handled, and A has no entry in over_run.                 *)
(***************************************************************************)
C7_InvalidRequisiteNoCrash ==
    \A A \in names, B \in names :
        (Valid(B) /\ ~Valid(A) /\ A \in Reqs(B)) =>
            /\ A \notin DOMAIN over_run
            /\ ~( /\ mode = "crashed"
                  /\ stack # <<>>
                  /\ Top.name = B
                  /\ Top.pc = "req"
                  /\ Top.i > 1
                  /\ Top.body.require[Top.i - 1] = A )

\* a requisite of S has been found unsatisfied or missing: the running
\* resolution of S holds a failure record, or over_run[S] is one
FoundFailing(S) ==
    \/ \E d \in 1..Len(stack) : stack[d].name = S /\ stack[d].req_fail # EmptyDict
    \/ S \in DOMAIN over_run /\ IsFailure(over_run[S])

C10_InvalidStageNeverRuns ==
    \A s \in names :
        ~Body(s).match =>
            /\ verify_stage(Body(s)) # <<>>
            /\ s \notin DOMAIN over_run
            /\ \A k \in 1..Len(calls) : calls[k].stage # s

\* a stage without 'match' was met by the driver's loop, which yielded its
\* errors, and was then met again as the requisite of a later stage
C10_Witness ==
    /\ mode = "crashed"
    /\ stack # <<>>
    /\ Top.pc = "req"
    /\ Top.i > 1
    /\ LET A == Top.body.require[Top.i - 1]
       IN  /\ A \in names
           /\ ~Body(A).match
           /\ \E k \in 1..Len(out) :
                 out[k].kind = "errors" /\ out[k].stage = get_stage(A)

(***************************************************************************)
(* C11.  The comps of the Definition are in sorted order of their names,   *)
(* and of two valid stages that are no requisite of each other, directly   *)
(* or through other stages, and that no third stage requires, directly or  *)
(* through other stages, the one that sorts first is dispatched first:     *)
(* when the other is dispatched, the first has been dispatched or holds a  *)
(* requisite failure, and it is not dispatched afterwards.                 *)
(***************************************************************************)
Unrelated(s, t) ==
    /\ s \notin TransReqs(t)
    /\ t \notin TransReqs(s)
    /\ \A u \in names \ {s, t} : s \notin TransReqs(u) /\ t \notin TransReqs(u)

C11_SortedOrder ==
    /\ \A k \in 1..Len(over), l \in 1..Len(over) :
          k < l => Rank(over[k].name) < Rank(over[l].name)
    /\ \A s \in names, t \in names :
          ( /\ Dispatched(t)
            /\ Rank(s) < Rank(t)
            /\ Valid(s) /\ Valid(t)
            /\ Unrelated(s, t) )
          => \A kt \in Dispatches(t) :
                /\ \/ \E ks \in Dispatches(s) : ks < kt
                   \/ s \in DOMAIN over_run /\ IsFailure(over_run[s])
                /\ \A ks \in Dispatches(s) : ks < kt

\* a pass is over in which two unrelated valid stages were both dispatched,
\* the second of them having a requisite that sorts after both
C11_Witness ==
    /\ mode = "done"
    /\ \E s \in names, t \in names, r \in names :
          /\ Rank(s) < Rank(t) /\ Rank(t) < Rank(r)
          /\ Valid(s) /\ Valid(t)
          /\ Unrelated(s, t)
          /\ r \in Reqs(s)
          /\ Dispatched(s) /\ Dispatched(t) /\ Dispatched(r)

\* the positions of the stage references to s in the driver's output
StageItems(s) ==
    {k \in 1..Len(out) : out[k].kind = "stage" /\ out[k].stage = get_stage(s)}

\* the stage reference at position k is followed by its outcome or errors
Paired(k) ==
    /\ k < Len(out)
    /\ out[k + 1].kind \in {"final", "errors"}
    /\ out[k + 1].stage = out[k].stage

(***************************************************************************)
(* C12.  In a streaming pass over a Definition without requisite cycles,   *)
(* the output holds at most one stage reference per stage, and when the    *)
(* pass is over it holds exactly one, followed by the outcome or the       *)
(* errors, for every stage that has an entry in over_run or has no         *)
(* 'match'.                                                                *)
(***************************************************************************)
C12_OnePairPerStage ==
    \/ \A s \in names :
          /\ Cardinality(StageItems(s)) <= 1
          /\ (mode = "done" /\ (s \in DOMAIN over_run \/ ~Valid(s))) =>
                 /\ Cardinality(StageItems(s)) = 1
                 /\ \A k \in StageItems(s) : Paired(k)
    \/ ~Acyclic

\* a Definition without requisite cycles in which every stage has 'match'
\* and a work form other than an empty function
WellFormed ==
    /\ \A s \in names : Valid(s) /\ Body(s).work \notin EmptyFunctionForms
    /\ Acyclic

(***************************************************************************)
(* C13.  On a Definition without requisite cycles in which every stage has *)
(* 'match' and a non-empty work form, a fully consumed streaming pass      *)
(* comes to its end (from some point on it is no longer in progress and    *)
(* has not ended in an exception), and at its end every stage name is a    *)
(* key of over_run, whatever the targets returned and whichever requisites *)
(* were missing.                                                           *)
(***************************************************************************)
C13_PassCompletes ==
    /\ []((mode = "done" /\ WellFormed) => \A s \in names : s \in DOMAIN over_run)
    /\ <>[](mode \in {"idle", "stages_returned", "done"} \/ ~WellFormed)

\* a pass is over, on such a Definition, in which one stage was dispatched
\* with a failed target, one holds a failure for that requisite and one
\* holds a failure for a missing requisite
C13_Witness ==
    /\ mode = "done"
    /\ WellFormed
    /\ \E s \in names, t \in names, u \in names :
          /\ Dispatched(s) /\ ~Satisfied(over_run[s])
          /\ IsRequisiteFailure(over_run[t], 254)
          /\ IsRequisiteFailure(over_run[u], 253)

(***************************************************************************)
(* C14.  In a streaming pass over a Definition without requisite cycles, a *)
(* resolution of stage S that has recorded a failed or missing requisite   *)
(* does not go on to resolve a later requisite of S: no call_stage of a    *)
(* requisite is open on behalf of a call_stage that holds a failure.       *)
(***************************************************************************)
C14_ShortCircuit ==
    \/ \A d \in 1..(Len(stack) - 1) : stack[d].req_fail = EmptyDict
    \/ ~Acyclic

(***************************************************************************)
(* C15.  In a streaming pass over a Definition without requisite cycles,   *)
(* for valid stages A and B with A among B's requisites: wherever the      *)
(* output holds a stage reference to B, it holds one to A, followed by A's *)
(* outcome, before it.                                                     *)
(***************************************************************************)
C15_RequisitePairFirst ==
    \/ \A A \in names, B \in names :
          (Valid(A) /\ Valid(B) /\ A \in Reqs(B)) =>
              \A kb \in StageItems(B) :
                  \E ka \in StageItems(A) : ka < kb /\ Paired(ka)
    \/ ~Acyclic

(***************************************************************************)
(* C16.  With two streaming passes interleaved on one instance, on a       *)
(* Definition without requisite cycles in which every stage has 'match'    *)
(* and a non-empty work form: no step removes an entry from over_run, and  *)
(* neither pass puts a second pair for a stage into its output, that is,   *)
(* resolves a stage it has already resolved.                               *)
(***************************************************************************)
C16_PassesIsolated ==
    /\ [][ WellFormed => \A s \in DOMAIN over_run : s \in DOMAIN over_run' ]_vars
    /\ [](WellFormed => \A s \in names : Cardinality(StageItems(s)) <= 1)

\* A requires B and nothing else, B requires A and nothing else, both valid
TwoCycle(A, B) ==
    /\ A # B
    /\ Valid(A) /\ Valid(B)
    /\ Body(A).require = <<B>>
    /\ Body(B).require = <<A>>

(***************************************************************************)
(* C17.  On a Definition in which A requires only B and B requires only A, *)
(* both valid, a streaming pass never reaches its end; neither stage gets  *)
(* an entry in over_run or is dispatched; an open call_stage of A or B is  *)
(* never closed, the call_stage opened inside it is that of the other      *)
(* stage, and whenever the running call_stage of A or B is in its          *)
(* requisite loop, it is at a requisite that has no entry, is a known      *)
(* valid stage, and is therefore resolved by a nested call_stage.          *)
(***************************************************************************)
C17_CycleNeverEnds ==
    /\ [](\A A \in names, B \in names :
            TwoCycle(A, B) =>
              /\ mode # "done"
              /\ A \notin DOMAIN over_run /\ B \notin DOMAIN over_run
              /\ ~Dispatched(A) /\ ~Dispatched(B)
              /\ \A d \in 1..(Len(stack) - 1) :
                    stack[d].name = A => stack[d + 1].name = B
              /\ (stack # <<>> /\ Top.name = A /\ Top.pc = "req") =>
                    /\ reqs_left(Top)
                    /\ Req = B
                    /\ ~req_called(Req)
                    /\ Req \in names
                    /\ req_v_stage(Body(Req)) = <<>>)
    /\ [][ \A A \in names, B \in names :
             TwoCycle(A, B) =>
               \A d \in 1..Len(stack) :
                  stack[d].name = A =>
                     Len(stack') >= d /\ stack'[d].name = A ]_vars

\* the nesting has reached the depth the model follows, alternating the two
\* stages of such a cycle under the call_stage of a third stage
C17_Witness ==
    /\ Len(stack) = MaxDepth
    /\ Top.pc = "req"
    /\ \E A \in names, B \in names :
          /\ TwoCycle(A, B)
          /\ stack[1].name \notin {A, B}
          /\ \A d \in 2..Len(stack) : stack[d].name \in {A, B}

\* the running call_stage is at a requisite that has an entry, and the
\* entry is a RequisiteFailure
AtFailedRequisite ==
    /\ mode = "iter"
    /\ stack # <<>>
    /\ Top.pc = "req"
    /\ Top.i <= Len(Top.body.require)
    /\ Top.body.require[Top.i] \in DOMAIN over_run
    /\ IsFailure(over_run[Top.body.require[Top.i]])

\* over_run holds, for S, the failure recorded for a requisite whose own
\* entry is a RequisiteFailure
ReadFailure(S) ==
    /\ S \in DOMAIN over_run
    /\ \E B \in Reqs(S) \cap DOMAIN over_run :
          /\ IsFailure(over_run[B])
          /\ \E k \in DOMAIN over_run[B] : over_run[S] = req_failed(B, k)

\* the step of a call_stage that is at a requisite whose entry is a
\* RequisiteFailure records a failure with retcode 254 for its stage, in
\* over_run and in the failures it holds, and makes no call on the client
RecordsFailure ==
    AtFailedRequisite =>
        /\ Top.name \in DOMAIN over_run'
        /\ IsRequisiteFailure(over_run'[Top.name], 254)
        /\ Len(stack') = Len(stack)
        /\ IsRequisiteFailure(stack'[Len(stack)].req_fail, 254)
        /\ calls' = calls

\* a call_stage that holds a failure keeps it and ends without a call on
\* the client
HolderNeverDispatches ==
    \A d \in 1..Len(stack) :
        IsFailure(stack[d].req_fail) =>
            \/ Len(stack') >= d /\ IsFailure(stack'[d].req_fail)
            \/ Len(stack') = d - 1 /\ calls' = calls

C19_EventAgreesWithRunState ==
    \/ (AtEnd /\ requisites_failed(Top)) =>
          /\ Top.name \in DOMAIN over_run
          /\ over_run[Top.name] = Top.req_fail
    \/ ~Acyclic

\* the running call_stage is at a requisite whose entry is a Result with
\* no target
AtEmptyRequisite ==
    /\ mode = "iter"
    /\ stack # <<>>
    /\ Top.pc = "req"
    /\ Top.i <= Len(Top.body.require)
    /\ Top.body.require[Top.i] \in DOMAIN over_run
    /\ over_run[Top.body.require[Top.i]] = EmptyDict

(***************************************************************************)
(* C20.  When the call_stage of a stage comes to a requisite whose entry   *)
(* is a Result with no target, it passes on to the next requisite: nothing *)
(* is recorded, no failure is added to those it holds, no call_stage is    *)
(* opened and no call is made.  At the end of a pass over a Definition     *)
(* without requisite cycles, a valid stage that has requisites, all of     *)
(* them stages whose entry is a Result with no target, has been            *)
(* dispatched.                                                             *)
(***************************************************************************)
C20_EmptyResultSatisfies ==
    /\ [][ AtEmptyRequisite =>
             /\ over_run' = over_run
             /\ calls' = calls
             /\ Len(stack') = Len(stack)
             /\ stack'[Len(stack)].req_fail = Top.req_fail
             /\ stack'[Len(stack)].i = Top.i + 1 ]_vars
    /\ []( \/ mode # "done"
           \/ \A C \in names :
                ( /\ Valid(C)
                  /\ Reqs(C) # {}
                  /\ \A B \in Reqs(C) :
                        B \in DOMAIN over_run /\ over_run[B] = EmptyDict )
                => (Dispatched(C) /\ ~IsFailure(over_run[C]))
           \/ ~Acyclic )

\* a pass is over in which C was dispatched after its requisite B, which
\* sorts before it and whose Result has no target
C20_Witness ==
    /\ mode = "done"
    /\ Acyclic
    /\ \E B \in names, C \in names :
          /\ Reqs(C) = {B}
          /\ Rank(B) < Rank(C)
          /\ B \in DOMAIN over_run /\ over_run[B] = EmptyDict
          /\ Dispatched(B) /\ Dispatched(C)
          /\ \A kb \in Dispatches(B), kc \in Dispatches(C) : kb < kc

====
